---- MODULE Spec2Model ----
(***************************************************************************)
(* sass-import-modules: the importer returned by importer({root, ext}).    *)
(* One call resolve(url, prev, done) is modelled, together with the two    *)
(* collaborators it suspends on: fs.stat and the `resolve` package.        *)
(*                                                                         *)
(* JavaScript strings are tuples of one-character strings, so that         *)
(* indexOf, path.join and path.dirname are computed and not assumed.       *)
(* The values undefined and null are the one-element tuples Undefined and  *)
(* Null, whose element is not a character.  Where an operator uses an     *)
(* argument many times, the argument is first bound to its value (x \in    *)
(* { e }), so that the string is computed once.                            *)
(***************************************************************************)
EXTENDS Integers, Sequences, FiniteSets, TLC

(* ---------- bounds and input alphabets -------------------------------- *)

\* longest options.includePaths array that is enumerated
MaxInc == 2

Undefined == <<"undefined">>
Null == <<"null">>
Slash == "/"

\* directories that may be configured as include paths ("" is filtered out)
IncEntries == { <<>>, <<"a">>, <<"b">> }
\* previously resolved file: in-memory data ("s", no directory) or a file
Prevs == { <<"s">>, <<"a", "/", "m">> }
\* configured root: absent ("") or a directory
Roots == { <<>>, <<"r">> }
\* specifiers: one without and one with the extension
Urls == { <<"x">>, <<"x", ".", "s">> }
\* ext option as given to importer(): with and without the leading dot
ExtOptions == { <<"s">>, <<".", "s">> }
\* the characters of the strings handed to extension() on its own
Alphabet == { "x", ".", "s" }
\* longest file and longest ext handed to extension() on its own, and how
\* often its result is handed back to it
MaxStr == 3
MaxExt == 2
MaxApply == 2
\* the resolution calls made on one importer
CallIds == { "first", "second" }

RECURSIVE SeqsUpTo(_, _)
SeqsUpTo(S, n) ==
  IF n = 0 THEN { <<>> }
  ELSE LET shorter == SeqsUpTo(S, n - 1)
       IN  shorter \cup { Append(s, x) : s \in shorter, x \in S }

Range(s) == { s[i] : i \in 1..Len(s) }

(* ---------- JavaScript helpers ---------------------------------------- *)

\* Boolean(v): undefined, null and the empty string are falsy
Truthy(v) == v # Undefined /\ v # Null /\ v # <<>>

\* a || b
Or(a, b) == IF Truthy(a) THEN a ELSE b

\* file.indexOf(ext) as a 1-based position, 0 when ext does not occur
\* (JavaScript's -1); the empty needle occurs at the start.
indexOf(file, needle) ==
  LET hits == { i \in 1..(Len(file) - Len(needle) + 1) :
                  SubSeq(file, i, i + Len(needle) - 1) = needle }
  IN  IF hits = {} THEN 0 ELSE CHOOSE i \in hits : \A j \in hits : i <= j

\* a plausible slip: the extension is appended without looking
extensionAlways(file, ext) == file \o ext

\* a plausible slip: the extension is looked for at the end only
extensionEndsWith(file, ext) ==
  IF Len(ext) <= Len(file)
       /\ SubSeq(file, Len(file) - Len(ext) + 1, Len(file)) = ext
    THEN file
    ELSE file \o ext

\* function extension(file, ext)
extension(file, ext) ==
  CHOOSE r \in { IF indexOf(f, e) = 0 THEN f \o e ELSE f :
                 f \in { file }, e \in { ext } } : TRUE

\* path.dirname (posix)
dirname(p) ==
  IF Len(p) = 0 THEN <<".">>
  ELSE LET hasRoot == p[1] = Slash
           \* positions i >= 2 holding a slash that has a non-slash after it
           ends == { i \in 2..Len(p) :
                       /\ p[i] = Slash
                       /\ \E j \in (i + 1)..Len(p) : p[j] # Slash }
       IN  IF ends = {} THEN (IF hasRoot THEN <<Slash>> ELSE <<".">>)
           ELSE LET end == CHOOSE i \in ends : \A j \in ends : j <= i
                IN  IF hasRoot /\ end = 2 THEN <<Slash, Slash>>
                    ELSE SubSeq(p, 1, end - 1)

\* the segments of p between slashes, from position i on
RECURSIVE splitFrom(_, _)
splitFrom(p, i) ==
  LET slashes == { k \in i..Len(p) : p[k] = Slash }
  IN  IF slashes = {} THEN << SubSeq(p, i, Len(p)) >>
      ELSE \* k is bound to a value, so the recursion does not re-evaluate it
           CHOOSE r \in { << SubSeq(p, i, k - 1) >> \o splitFrom(p, k + 1) :
                          k \in { j \in slashes : \A l \in slashes : j <= l } } :
             TRUE

\* normalizeString: drop "" and ".", resolve ".." against the kept segments
RECURSIVE normSegs(_, _, _, _)
normSegs(segs, i, kept, isAbs) ==
  IF i > Len(segs) THEN kept
  ELSE CHOOSE r \in
         { IF s = <<>> \/ s = <<".">> THEN normSegs(segs, i + 1, k, isAbs)
           ELSE IF s = <<".", ".">>
             THEN IF k # <<>> /\ k[Len(k)] # <<".", ".">>
                    THEN normSegs(segs, i + 1, SubSeq(k, 1, Len(k) - 1), isAbs)
                    ELSE IF isAbs THEN normSegs(segs, i + 1, k, isAbs)
                         ELSE normSegs(segs, i + 1, Append(k, s), isAbs)
             ELSE normSegs(segs, i + 1, Append(k, s), isAbs) :
           s \in { segs[i] }, k \in { kept } } : TRUE

\* segs joined by "/", from segment i on
RECURSIVE joinSegs(_, _)
joinSegs(segs, i) ==
  IF i > Len(segs) THEN <<>>
  ELSE IF i = Len(segs) THEN segs[i]
  ELSE segs[i] \o <<Slash>> \o joinSegs(segs, i + 1)

\* path.normalize (posix), of a path given as a value
normalizeValue(p) ==
  IF Len(p) = 0 THEN <<".">>
  ELSE CHOOSE r \in
         { IF body = <<>>
             THEN (IF p[1] = Slash THEN <<Slash>>
                   ELSE IF p[Len(p)] = Slash THEN <<".", Slash>> ELSE <<".">>)
             ELSE (IF p[1] = Slash THEN <<Slash>> ELSE <<>>) \o body
                  \o (IF p[Len(p)] = Slash THEN <<Slash>> ELSE <<>>) :
           body \in { joinSegs(segs, 1) :
                      segs \in { normSegs(raw, 1, <<>>, p[1] = Slash) :
                                 raw \in { splitFrom(p, 1) } } } } : TRUE

\* path.normalize (posix)
normalize(p) == CHOOSE r \in { normalizeValue(q) : q \in { p } } : TRUE

\* path.join(base, file) (posix): non-empty arguments joined by "/", normalized
join(base, file) ==
  CHOOSE r \in
    { IF parts = <<>> THEN <<".">> ELSE normalize(joinSegs(parts, 1)) :
      parts \in { SelectSeq(<<base, file>>, LAMBDA s : Len(s) > 0) } } : TRUE

(* ---------- the importer and its collaborators ------------------------ *)

VARIABLES
  url,        \* resolve's argument url
  prev,       \* resolve's argument prev
  root,       \* importer's root
  ext,        \* importer's ext, after the leading dot is ensured
  options,    \* what [].concat takes from this.options.includePaths
  files,      \* the paths for which fs.stat reports a file
  pkg,        \* per basedir, what the resolve package finds
  pc,         \* "idle" before the call, "running", "finished"
  stack,      \* run's stack: the attempts not yet taken
  error,      \* run's parameter error, as seen by the current next
  pending,    \* collaborator requests whose callback has not run yet
  started,    \* history: the attempts taken from the stack, in order
  reported,   \* history: the (err, file) each attempt passed to next
  doneCalls,  \* history: the argument list of every call of done
  thrown,     \* history: every error thrown
  extArg,     \* extension() on its own: the (file, ext) it is first given
  extRets,    \* extension() on its own: what it returned, call after call
  cur,        \* the call whose closure the variables above hold
  parked,     \* the closure of the other call, while it waits
  heap        \* per call, its fns array while the call waits

config == <<url, prev, root, ext, options>>
world == <<files, pkg>>
program == <<pc, stack, error, pending>>
history == <<started, reported, doneCalls, thrown>>
pure == <<extArg, extRets>>
calls == <<cur, parked, heap>>
vars == <<config, world, program, history, pure, calls>>

\* extension() is not looked at on its own
noExtension ==
  /\ extArg = [file |-> <<>>, ext |-> <<>>]
  /\ extRets = <<>>

\* there is no second call
oneCall ==
  /\ cur = "first"
  /\ parked = [pc |-> "none"]
  /\ heap = [c \in CallIds |-> <<>>]

\* what the resolve package finds for a basedir: the extended request, only
\* the original request, nothing (no error), nothing (with an error)
PkgKinds == { "ext", "bare", "none", "err" }

\* importer(): ext gets a leading dot when it has none
normalizeExt(e) == IF e = <<>> \/ e[1] # "." THEN <<".">> \o e ELSE e

\* a plausible slip: root is put before the directory of prev
includesRootFirst(opts, p, r) == SelectSeq(opts \o << r, dirname(p) >>, Truthy)

\* a plausible slip: the directory of prev and root are left out
includesConfiguredOnly(opts, p, r) == SelectSeq(opts, Truthy)

\* const includes = [].concat(options.includePaths, dirnamePrev, root).filter(Boolean)
includes(opts, p, r) == SelectSeq(opts \o << dirname(p), r >>, Truthy)

\* a plausible slip: the bases are walked from the last to the first
bindReversed(fn, inc) ==
  [ i \in 1..Len(inc) |-> [fn |-> fn, base |-> inc[Len(inc) + 1 - i]] ]

\* includes.map(base => fn.bind(fn, base))
bind(fn, inc) == [ i \in 1..Len(inc) |-> [fn |-> fn, base |-> inc[i]] ]

\* a plausible slip: [node, local] instead of [local, node]
fnsNodeFirst(inc) == bind("node", inc) \o bind("local", inc)

\* const fns = [local, node].reduce((arr, fn) => arr.concat(...), [])
fns(inc) == bind("local", inc) \o bind("node", inc)

\* the file a local attempt looks for
localFile(base, file, e) == extension(join(base, file), e)

\* the path the resolve package answers with when it finds the request
pkgPath(base, req) == base \o <<Slash, "n", Slash>> \o req

\* the error object of a failed resolve request
resolveError(phase, base) == <<"Error", phase>> \o base

\* `Could not find file: ${url} from parent ${prev}`
message(u, p) == <<"Could not find file: ">> \o u \o <<" from parent ">> \o p

\* calling stack.shift() on an empty stack calls undefined
TypeError == <<"TypeError">>

\* exists(): done(!error && !!stat)
exists(err, stat) == ~err /\ stat

\* a plausible slip: node() appends the extension without looking
firstRequestAppends(att, id) ==
  IF att.fn = "local"
    THEN [op |-> "stat", phase |-> 0, base |-> att.base, id |-> id,
          req |-> localFile(att.base, url, ext)]
    ELSE [op |-> "resolve", phase |-> 1, base |-> att.base, id |-> id,
          req |-> url \o ext]

\* the collaborator request an attempt issues first
firstRequest(att, id) ==
  IF att.fn = "local"
    THEN [op |-> "stat", phase |-> 0, base |-> att.base, id |-> id,
          req |-> localFile(att.base, url, ext)]
    ELSE [op |-> "resolve", phase |-> 1, base |-> att.base, id |-> id,
          req |-> extension(url, ext)]

\* node(): resolve(file, { basedir: base }, next) after the first request failed
secondRequest(r) ==
  [op |-> "resolve", phase |-> 2, base |-> r.base, id |-> r.id, req |-> url]

TypeOK ==
  /\ pc \in { "idle", "running", "finished" }
  /\ IsFiniteSet(pending)
  /\ Len(reported) <= Len(started)

Init ==
  /\ url \in Urls
  /\ prev \in Prevs
  /\ root \in Roots
  /\ ext \in { normalizeExt(e) : e \in ExtOptions }
  /\ options \in { <<Undefined>> } \cup SeqsUpTo(IncEntries, MaxInc)
  /\ LET bases == Range(includes(options, prev, root))
     IN  /\ files \in SUBSET { localFile(b, url, ext) : b \in bases }
         /\ pkg \in [ bases -> PkgKinds ]
  /\ pc = "idle"
  /\ stack = <<>>
  /\ error = Undefined
  /\ pending = {}
  /\ started = <<>>
  /\ reported = <<>>
  /\ doneCalls = <<>>
  /\ thrown = <<>>
  /\ noExtension
  /\ oneCall

\* a plausible slip: the callback is invoked a second time
provideTwice(file) ==
  doneCalls' = doneCalls \o << << [file |-> file] >>, << [file |-> file] >> >>

\* provide(file, done): done({ file })
provide(file) == doneCalls' = Append(doneCalls, << [file |-> file] >>)

\* a plausible slip: two attempts are taken from the stack at once
runTwo(stk, err, pend) ==
  /\ error' = err
  /\ UNCHANGED <<doneCalls, thrown>>
  /\ stk # <<>>
  /\ pc' = "running"
  /\ LET k == IF Len(stk) >= 2 THEN 2 ELSE 1
     IN  /\ stack' = SubSeq(stk, k + 1, Len(stk))
         /\ started' = started \o SubSeq(stk, 1, k)
         /\ pending' = pend \cup
              { [op |-> IF stk[i].fn = "local" THEN "stat" ELSE "resolve",
                 phase |-> IF stk[i].fn = "local" THEN 0 ELSE 1,
                 base |-> stk[i].base, id |-> Len(started) + i,
                 req |-> IF stk[i].fn = "local"
                           THEN extension(join(stk[i].base, url), ext)
                           ELSE extension(url, ext)] : i \in 1..k }

\* a plausible slip: the attempt is read without being shifted off the
\* stack the first time, so every attempt is taken twice
runRetriesOnce(stk, err, pend) ==
  /\ error' = err
  /\ UNCHANGED <<doneCalls, thrown>>
  /\ stk # <<>>
  /\ stack' = IF started # <<>> /\ started[Len(started)] = Head(stk)
                THEN Tail(stk) ELSE stk
  /\ started' = Append(started, Head(stk))
  /\ pending' = pend \cup { firstRequest(Head(stk), Len(started) + 1) }
  /\ pc' = "running"

\* a plausible slip (or repair): the accumulated error is handed on
runAccumulates(stk, err, pend) ==
  /\ error' = Or(error, err)
  /\ UNCHANGED <<doneCalls, thrown>>
  /\ stk # <<>>
  /\ stack' = Tail(stk)
  /\ started' = Append(started, Head(stk))
  /\ pending' = pend \cup { firstRequest(Head(stk), Len(started) + 1) }
  /\ pc' = "running"

\* (function run(stack, error) { ... stack.shift()(url, ext, next); })
\* pend: the requests outstanding once the caller's own request is answered
run(stk, err, pend) ==
  /\ error' = err
  /\ UNCHANGED doneCalls
  /\ IF stk = <<>>
       THEN /\ thrown' = Append(thrown, TypeError)
            /\ pc' = "finished"
            /\ stack' = stk
            /\ pending' = pend
            /\ started' = started
       ELSE /\ stack' = Tail(stk)
            /\ started' = Append(started, Head(stk))
            /\ pending' = pend \cup { firstRequest(Head(stk), Len(started) + 1) }
            /\ pc' = "running"
            /\ UNCHANGED thrown

\* next, `if (file) return void provide(file, done)`
succeed(file, e, pend) ==
  /\ provide(file)
  /\ error' = e
  /\ pending' = pend
  /\ pc' = "finished"
  /\ UNCHANGED <<stack, started, thrown>>

\* a plausible slip: the exhausted stack always ends in the throw
giveUpThrows(e, pend) ==
  /\ error' = e
  /\ pending' = pend
  /\ pc' = "finished"
  /\ thrown' = Append(thrown, message(url, prev))
  /\ UNCHANGED <<stack, started, doneCalls>>

\* a plausible slip: done() is called before the error check
giveUpDoneFirst(e, pend) ==
  /\ error' = e
  /\ pending' = pend
  /\ pc' = "finished"
  /\ doneCalls' = Append(doneCalls, <<>>)
  /\ thrown' = IF Truthy(e) THEN Append(thrown, message(url, prev)) ELSE thrown
  /\ UNCHANGED <<stack, started>>

\* next, `if (!stack.length) { if (error) throw ...; return void done(); }`
giveUp(e, pend) ==
  /\ error' = e
  /\ pending' = pend
  /\ pc' = "finished"
  /\ UNCHANGED <<stack, started>>
  /\ IF Truthy(e)
       THEN /\ thrown' = Append(thrown, message(url, prev))
            /\ UNCHANGED doneCalls
       ELSE /\ doneCalls' = Append(doneCalls, <<>>)
            /\ UNCHANGED thrown

\* a plausible slip: a carried error is thrown as soon as it is seen
nextThrowEarly(err, file, pend) ==
  /\ reported' = Append(reported, [err |-> err, file |-> file])
  /\ IF Truthy(file)
       THEN succeed(file, Or(error, err), pend)
       ELSE IF Len(stack) = 0 \/ Truthy(Or(error, err))
         THEN giveUp(Or(error, err), pend)
         ELSE run(stack, err, pend)

\* a plausible slip: the return after provide is missing
nextFallThrough(err, file, pend) ==
  /\ reported' = Append(reported, [err |-> err, file |-> file])
  /\ IF Truthy(file) /\ Len(stack) = 0
       THEN succeed(file, Or(error, err), pend)
       ELSE IF Truthy(file)
         THEN /\ provide(file)
              /\ error' = err
              /\ stack' = Tail(stack)
              /\ started' = Append(started, Head(stack))
              /\ pending' = pend \cup
                   { firstRequest(Head(stack), Len(started) + 1) }
              /\ pc' = "running"
              /\ UNCHANGED thrown
         ELSE IF Len(stack) = 0
           THEN giveUp(Or(error, err), pend)
           ELSE run(stack, err, pend)

\* function next(err, file): error = error || err, then the three exits
next(err, file, pend) ==
  /\ reported' = Append(reported, [err |-> err, file |-> file])
  /\ IF Truthy(file)
       THEN succeed(file, Or(error, err), pend)
       ELSE IF Len(stack) = 0
         THEN giveUp(Or(error, err), pend)
         ELSE run(stack, err, pend)

\* the host calls resolve(url, prev, done)
Resolve ==
  /\ pc = "idle"
  /\ run(fns(includes(options, prev, root)), Undefined, pending)
  /\ UNCHANGED <<config, world, reported, pure, calls>>

\* a plausible slip: local() hands the stat error on, as node() does
statCallbackCarries(r, err, stat, pend) ==
  next(IF err THEN <<"Error", "0">> \o r.base ELSE Null,
       IF stat THEN r.req ELSE Null, pend)

\* local(): exists(file, exist => next(null, exist ? file : null)), for the
\* (error, stat) that fs.stat called back with
statCallback(r, err, stat, pend) ==
  next(Null, IF exists(err, stat) THEN r.req ELSE Null, pend)

\* fs.stat calls back: it reports the file (no error and a stat object)
\* exactly for the paths of files, and anything else for the others
StatAnswer ==
  \E r \in pending, err \in BOOLEAN, stat \in BOOLEAN :
    /\ r.op = "stat"
    /\ (~err /\ stat) <=> (r.req \in files)
    /\ statCallback(r, err, stat, pending \ {r})
    /\ UNCHANGED <<config, world, pure, calls>>

\* a plausible slip: the first request's answer goes to next as it is
nodeCallbackForwards(r, err, result, pend) == next(err, result, pend)

\* node(): (error, result) => { if (result) return next(null, result);
\* resolve(file, { basedir: base }, next); }
nodeCallback(r, err, result, pend) ==
  IF Truthy(result)
    THEN next(Null, result, pend)
    ELSE /\ pending' = pend \cup { secondRequest(r) }
         /\ UNCHANGED <<pc, stack, error, history>>

\* the resolve package calls back on node()'s first request: with the path,
\* or without one and with or without an error
ResolveExtAnswer ==
  \E r \in pending :
    /\ r.op = "resolve" /\ r.phase = 1
    /\ \E err \in { Null, resolveError("1", r.base) } :
         /\ pkg[r.base] = "ext" => err = Null
         /\ nodeCallback(r, err,
                         IF pkg[r.base] = "ext" THEN pkgPath(r.base, r.req)
                         ELSE Undefined,
                         pending \ {r})
    /\ UNCHANGED <<config, world, pure, calls>>

\* the resolve package calls back on node()'s second request, with next
\* itself: a path and no error, or no path (with an error, or for "none"
\* without one)
ResolveBareAnswer ==
  \E r \in pending :
    /\ r.op = "resolve" /\ r.phase = 2
    /\ next(IF pkg[r.base] = "err" THEN resolveError("2", r.base) ELSE Null,
            IF pkg[r.base] = "bare" THEN pkgPath(r.base, r.req) ELSE Undefined,
            pending \ {r})
    /\ UNCHANGED <<config, world, pure, calls>>

Next == Resolve \/ StatAnswer \/ ResolveExtAnswer \/ ResolveBareAnswer

Spec == Init /\ [][Next]_vars

\* every collaborator request is eventually answered
FairSpec == Spec /\ WF_vars(Next)

(* ---------- two calls on one importer --------------------------------- *)

\* what node-sass is configured with when two calls are followed
ConcOptions == { <<Undefined>>, << <<"a">> >> }

\* the call that is not c
other(c) == CHOOSE d \in CallIds : d # c

\* a plausible slip: fns is built once per importer and reused by the calls
arrayOfImporter(c) == "first"

\* const fns = [local, node].reduce(...): map and concat return a new
\* array every time resolve runs, so the array belongs to the call
arrayOf(c) == c

\* the closure of a call that has not begun: resolve(url, prev, done)
idleClosure(u, p) ==
  [url |-> u, prev |-> p, pc |-> "idle", error |-> Undefined, pending |-> {},
   started |-> <<>>, reported |-> <<>>, doneCalls |-> <<>>, thrown |-> <<>>]

\* the closure of the call whose callback is running
loaded ==
  [url |-> url, prev |-> prev, pc |-> pc, error |-> error,
   pending |-> pending, started |-> started, reported |-> reported,
   doneCalls |-> doneCalls, thrown |-> thrown]

ConcInit ==
  /\ root \in Roots
  /\ ext \in { normalizeExt(e) : e \in ExtOptions }
  /\ options \in ConcOptions
  /\ url \in Urls
  /\ prev \in Prevs
  /\ parked \in { idleClosure(u, p) : u \in Urls, p \in Prevs }
  /\ LET bs == Range(includes(options, prev, root))
                 \cup Range(includes(options, parked.prev, root))
         paths == { localFile(b, u, ext) : b \in bs, u \in { url, parked.url } }
     IN  /\ files \in { {} } \cup { { f } : f \in paths }
         /\ pkg \in [ bs -> PkgKinds ]
  /\ pc = "idle"
  /\ stack = <<>>
  /\ error = Undefined
  /\ pending = {}
  /\ started = <<>>
  /\ reported = <<>>
  /\ doneCalls = <<>>
  /\ thrown = <<>>
  /\ cur = "first"
  /\ heap = [c \in CallIds |-> <<>>]
  /\ noExtension

\* the event loop turns to the other call: the host calls resolve a second
\* time, or a callback of the other call runs. The closure of the call left
\* behind waits with its fns array; the other call finds its own again.
Dispatch ==
  /\ parked.pc \in { "idle", "running" }
  /\ cur' = other(cur)
  /\ parked' = loaded
  /\ heap' = [heap EXCEPT ![arrayOf(cur)] = stack]
  /\ stack' = heap'[arrayOf(other(cur))]
  /\ url' = parked.url
  /\ prev' = parked.prev
  /\ pc' = parked.pc
  /\ error' = parked.error
  /\ pending' = parked.pending
  /\ started' = parked.started
  /\ reported' = parked.reported
  /\ doneCalls' = parked.doneCalls
  /\ thrown' = parked.thrown
  /\ UNCHANGED <<root, ext, options, world, pure>>

ConcNext ==
  \/ Resolve
  \/ StatAnswer
  \/ ResolveExtAnswer
  \/ ResolveBareAnswer
  \/ Dispatch
ConcSpec == ConcInit /\ [][ConcNext]_vars

(* ---------- extension() on its own ------------------------------------ *)

\* the strings over Alphabet of length at most n
Strings(n) == SeqsUpTo(Alphabet, n)

\* no importer is built and no call is made
noImporter ==
  /\ url = <<>> /\ prev = <<>> /\ root = <<>> /\ ext = <<>>
  /\ options = <<>>
  /\ files = {} /\ pkg = <<>>
  /\ pc = "idle" /\ stack = <<>> /\ error = Undefined /\ pending = {}
  /\ started = <<>> /\ reported = <<>> /\ doneCalls = <<>> /\ thrown = <<>>

ExtInit ==
  /\ extArg \in [file : Strings(MaxStr), ext : Strings(MaxExt)]
  /\ extRets = <<>>
  /\ noImporter
  /\ oneCall

\* extension(file, ext) is called: first with extArg, then with what it
\* returned the time before
extensionCall ==
  /\ Len(extRets) < MaxApply
  /\ extRets' = Append(extRets,
                       extension(IF extRets = <<>> THEN extArg.file
                                 ELSE extRets[Len(extRets)],
                                 extArg.ext))
  /\ UNCHANGED <<extArg, config, world, program, history, calls>>

ExtNext == extensionCall
ExtSpec == ExtInit /\ [][ExtNext]_vars

(* ---------- what a call has done so far -------------------------------- *)

\* the call is over: done was called or an error was thrown
finished == pc = "finished"

\* the calls of done that carry a file, and those without arguments
fileCalls == { i \in DOMAIN doneCalls : Len(doneCalls[i]) = 1 }
emptyCalls == { i \in DOMAIN doneCalls : Len(doneCalls[i]) = 0 }

\* the throws of the fatal error
fatalThrows == { i \in DOMAIN thrown : thrown[i] = message(url, prev) }

\* some attempt so far reported a file / carried an error
anySuccess == \E i \in DOMAIN reported : Truthy(reported[i].file)
anyCarried == \E i \in DOMAIN reported : Truthy(reported[i].err)

\* the base directories and the attempt list of this call
bases == includes(options, prev, root)
attempts == fns(bases)

(* ---------- C1 ---------------------------------------------------------- *)

\* C1: in every call exactly one of done({file}), done() and the fatal error
\* occurs: never two of them at any time, nothing but these three, and,
\* when every collaborator request is answered, eventually one of them.
C1_ExactlyOneOutcome ==
  /\ [](/\ Cardinality(fileCalls) + Cardinality(emptyCalls)
             + Cardinality(fatalThrows) <= 1
        /\ Len(doneCalls) + Len(thrown)
             = Cardinality(fileCalls) + Cardinality(emptyCalls)
               + Cardinality(fatalThrows))
  /\ <>[](Len(doneCalls) + Len(thrown) = 1)

\* a call that went through both strategies and ended with a file
C1_Witness ==
  /\ finished
  /\ Len(reported) > Len(bases)
  /\ Cardinality(fileCalls) = 1
  /\ thrown = <<>>

(* ---------- C2 ---------------------------------------------------------- *)

\* C2: when no attempt succeeded and an attempt at any position carried an
\* error, the finished call has thrown 'Could not find file: <url> from
\* parent <prev>' and has never called done with a file.
C2_FatalWhenAnyCarried ==
  (finished /\ ~anySuccess /\ anyCarried)
    => /\ thrown = << message(url, prev) >>
       /\ fileCalls = {}

(* ---------- C3 ---------------------------------------------------------- *)

\* C3: when no attempt succeeded and none carried an error, the finished
\* call has called done with no arguments exactly once and has thrown
\* nothing.
C3_NoResultWhenNoneCarried ==
  (finished /\ ~anySuccess /\ ~anyCarried)
    => /\ doneCalls = << <<>> >>
       /\ thrown = <<>>

\* every attempt over three bases reported not-found without an error
C3_Witness ==
  /\ finished
  /\ Len(bases) >= 3
  /\ Len(reported) = 2 * Len(bases)
  /\ ~anySuccess
  /\ ~anyCarried
  /\ doneCalls = << <<>> >>

(* ---------- C4 ---------------------------------------------------------- *)

\* the configured include paths stand first in the base list: A, then B
twoPaths == Len(SelectSeq(options, Truthy)) >= 2
pathA == bases[1]
pathB == bases[2]

\* what the world holds for a base
localAt(b) == localFile(b, url, ext) \in files
packageAt(b) == pkg[b] \in { "ext", "bare" }
packageFile(b) ==
  pkgPath(b, IF pkg[b] = "ext" THEN extension(url, ext) ELSE url)

\* the file the finished call handed to done
reportedFile == doneCalls[1][1].file
succeeded == finished /\ Len(doneCalls) = 1 /\ fileCalls = {1}

\* C4 as stated: with include paths [A, B] and the specifier resolvable at
\* both by either strategy, the reported file is one resolved under A.
C4_FirstPathWins ==
  (finished /\ twoPaths
     /\ (localAt(pathA) \/ packageAt(pathA))
     /\ (localAt(pathB) \/ packageAt(pathB)))
    => /\ succeeded
       /\ reportedFile \in { localFile(pathA, url, ext), packageFile(pathA) }

\* C4 amended: a local match at A wins over everything; a local match at B
\* wins over a package match at A; among package matches, when no base has
\* a local match, A wins over B.
C4_FirstPathWinsPerStrategy ==
  (finished /\ twoPaths) =>
    /\ localAt(pathA)
         => succeeded /\ reportedFile = localFile(pathA, url, ext)
    /\ (~localAt(pathA) /\ localAt(pathB))
         => succeeded /\ reportedFile = localFile(pathB, url, ext)
    /\ ((\A i \in DOMAIN bases : ~localAt(bases[i]))
          /\ packageAt(pathA) /\ packageAt(pathB))
         => succeeded /\ reportedFile = packageFile(pathA)

\* both A and B hold the file locally and as a package: A's local file won
C4_Witness ==
  /\ finished /\ twoPaths /\ pathA # pathB
  /\ localAt(pathA) /\ packageAt(pathA)
  /\ localAt(pathB) /\ packageAt(pathB)
  /\ reportedFile = localFile(pathA, url, ext)

(* ---------- C5 ---------------------------------------------------------- *)

\* C5 as stated: on every path, the fatal one included, the finished call
\* has invoked done exactly once.
C5_DoneExactlyOnce == finished => Len(doneCalls) = 1

\* C5 amended: done is never invoked twice; a finished call has invoked it
\* exactly once unless it ended in the fatal error, and then not at all.
C5_DoneOnceUnlessFatal ==
  /\ Len(doneCalls) <= 1
  /\ finished => (IF thrown = <<>> THEN Len(doneCalls) = 1
                  ELSE Len(doneCalls) = 0)

\* the fatal path: the error is thrown and done was not invoked
C5_Witness ==
  /\ finished
  /\ thrown = << message(url, prev) >>
  /\ doneCalls = <<>>

(* ---------- C6 ---------------------------------------------------------- *)

\* C6: an attempt that reports a file ends the call with done({file}) and
\* without an error, whatever earlier attempts carried; and the fatal error
\* is thrown only when every attempt of the list has reported.
C6_ErrorNeverPreempts ==
  /\ \A i \in DOMAIN reported :
       Truthy(reported[i].file)
         => /\ doneCalls = << << [file |-> reported[i].file] >> >>
            /\ thrown = <<>>
  /\ thrown # <<>>
       => /\ stack = <<>>
          /\ Len(reported) = Len(attempts)

\* a package attempt carried an error and a later one produced the file
C6_Witness ==
  /\ finished
  /\ \E i, j \in DOMAIN reported :
       /\ i < j
       /\ Truthy(reported[i].err)
       /\ ~Truthy(reported[i].file)
       /\ Truthy(reported[j].file)
  /\ thrown = <<>>

(* ---------- C7 ---------------------------------------------------------- *)

\* the list before filtering, and the positions that survive it
rawBases == options \o << dirname(prev), root >>
keptPositions ==
  { i \in DOMAIN rawBases : rawBases[i] # <<>> /\ rawBases[i] # Undefined }
rank(i) == Cardinality({ j \in keptPositions : j <= i })

\* every attempt of the call: those taken and those still on the stack
allAttempts == started \o stack

\* C7: the bases the call works through are the configured include paths
\* in their order, then the directory of prev, then root, without the
\* empty and undefined entries: nothing added, dropped, moved or merged.
C7_BaseList ==
  pc # "idle" =>
    /\ Len(allAttempts) = 2 * Cardinality(keptPositions)
    /\ \A i \in keptPositions :
         /\ allAttempts[rank(i)].base = rawBases[i]
         /\ allAttempts[Cardinality(keptPositions) + rank(i)].base
              = rawBases[i]

\* a call whose list had an empty entry removed and a directory twice
C7_Witness ==
  /\ finished
  /\ Cardinality(keptPositions) < Len(rawBases)
  /\ Cardinality(keptPositions) >= 3
  /\ \E i, j \in keptPositions : i < j /\ rawBases[i] = rawBases[j]
  /\ Len(started) = 2 * Cardinality(keptPositions)

(* ---------- C8 ---------------------------------------------------------- *)

\* C8: the k-th attempt taken is local at base k for k <= n and package at
\* base k - n after that, and attempt k + 1 is taken only when attempt k
\* has reported.
C8_AttemptOrder ==
  LET n == Len(bases)
  IN  /\ Len(started) <= 2 * n
      /\ \A k \in DOMAIN started :
           started[k] = IF k <= n
                          THEN [fn |-> "local", base |-> bases[k]]
                          ELSE [fn |-> "node", base |-> bases[k - n]]
      /\ Len(started) <= Len(reported) + 1

\* all 2n attempts over three or more bases were taken
C8_Witness ==
  /\ Len(bases) >= 3
  /\ Len(started) = 2 * Len(bases)
  /\ bases[1] # bases[2]

(* ---------- C9 ---------------------------------------------------------- *)

\* C9: once an attempt has reported a file, done has been called with that
\* file, that attempt is the last one taken and no request is outstanding.
C9_ShortCircuit ==
  \A i \in DOMAIN reported :
    Truthy(reported[i].file)
      => /\ doneCalls = << << [file |-> reported[i].file] >> >>
         /\ Len(started) = i
         /\ Len(reported) = i
         /\ pending = {}

\* a file was reported while attempts were left on the stack
C9_Witness ==
  /\ \E i \in DOMAIN reported : Truthy(reported[i].file)
  /\ Len(stack) >= 2
  /\ Len(started) >= 2

(* ---------- C10 --------------------------------------------------------- *)

\* C10: at most one collaborator request is outstanding in every state,
\* and an attempt is taken only in the step in which the previous attempt
\* reports (the first one in the call itself).
C10_OneOutstanding ==
  /\ [](Cardinality(pending) <= 1)
  /\ [][started' # started
          => /\ Len(started') = Len(started) + 1
             /\ Len(reported') = Len(started)
             /\ Cardinality(pending') = 1]_vars

\* the second request of a package attempt is the only one outstanding
C10_Witness ==
  /\ Cardinality(pending) = 1
  /\ \E r \in pending : r.phase = 2
  /\ Len(started) >= 4

(* ---------- C11 --------------------------------------------------------- *)

\* the requests issued by a step
issuedNow == pending' \ pending

\* C11: a package attempt at base b first asks for the extended specifier
\* with basedir b, and asks for the original specifier with the same
\* basedir only when the first request gave no result; it reports the
\* first result obtained, without an error; when both fail it reports no
\* file and the error of the second request, never that of the first.
C11_PackageAttempt ==
  /\ [](\A k \in DOMAIN reported :
          started[k].fn = "node" =>
            LET b == started[k].base
            IN  CASE pkg[b] = "ext" ->
                       reported[k] =
                         [err |-> Null,
                          file |-> pkgPath(b, extension(url, ext))]
                  [] pkg[b] = "bare" ->
                       reported[k] = [err |-> Null, file |-> pkgPath(b, url)]
                  [] OTHER ->
                       /\ ~Truthy(reported[k].file)
                       /\ reported[k].err \in { Null, resolveError("2", b) }
                       /\ pkg[b] = "err"
                            => reported[k].err = resolveError("2", b))
  /\ [][\A r \in issuedNow :
          r.op = "resolve" =>
            \/ /\ r.phase = 1
               /\ started' # started
               /\ r.base = started'[Len(started')].base
               /\ r.req = extension(url, ext)
            \/ /\ r.phase = 2
               /\ started' = started /\ reported' = reported
               /\ r.req = url
               /\ \E q \in pending :
                    /\ q.phase = 1 /\ q.base = r.base /\ q.id = r.id
                    /\ pkg[q.base] # "ext"]_vars

\* one package attempt failed twice and carried the second error, a later
\* one got its file from the second request
C11_Witness ==
  \E i, j \in DOMAIN reported :
    /\ i < j
    /\ started[i].fn = "node" /\ started[j].fn = "node"
    /\ reported[i].err = resolveError("2", started[i].base)
    /\ reported[j].file = pkgPath(started[j].base, url)
    /\ url # extension(url, ext)

(* ---------- C12 --------------------------------------------------------- *)

\* C12: a local attempt reports no error, and either its file (the
\* extended join of base and specifier, when fs.stat reports it) or no file
\* (whatever else fs.stat answered); and a finished call in which no
\* package attempt carried an error has thrown nothing.
C12_LocalNeverCarries ==
  /\ \A k \in DOMAIN reported :
       started[k].fn = "local" =>
         /\ reported[k].err = Null
         /\ reported[k].file =
              IF localFile(started[k].base, url, ext) \in files
                THEN extension(join(started[k].base, url), ext)
                ELSE Null
  /\ (finished
        /\ \A k \in DOMAIN reported :
             started[k].fn = "node" => ~Truthy(reported[k].err))
       => thrown = <<>>

\* fs.stat failed for every local attempt of a call over two or more
\* bases, no package request erred: the call ended without result
C12_Witness ==
  /\ finished
  /\ Len(bases) >= 2
  /\ files = {}
  /\ \A i \in DOMAIN bases : pkg[bases[i]] = "none"
  /\ \E k \in DOMAIN reported :
       started[k].fn = "local" /\ reported[k] = [err |-> Null, file |-> Null]
  /\ thrown = <<>>

(* ---------- C13 --------------------------------------------------------- *)

\* C13 as stated: when every request is answered the call completes, and
\* no (strategy, base) pair is attempted twice, so that at most 2n attempts
\* are started.
C13_CompletesNoPairTwice ==
  /\ <>finished
  /\ [](/\ Len(started) <= 2 * Len(bases)
        /\ \A i, j \in DOMAIN started :
             i # j => started[i] # started[j])

\* C13 amended: when every request is answered the call completes; the
\* attempts started are the entries of the attempt list, each taken once
\* and in order, one per step, so at most 2n for n entries of the base
\* list; a directory that stands k times in the base list is attempted k
\* times per strategy.
C13_CompletesEachEntryOnce ==
  /\ <>finished
  /\ [](/\ Len(started) <= 2 * Len(bases)
        /\ started = SubSeq(attempts, 1, Len(started)))
  /\ [][started' = started \/ Len(started') = Len(started) + 1]_vars

\* the directory of prev is also an include path: the attempts at it were
\* made twice, and all 2n attempts were started
C13_Witness ==
  /\ finished
  /\ Len(started) = 2 * Len(bases)
  /\ \E i, j \in DOMAIN started : i < j /\ started[i] = started[j]

(* ---------- C14 --------------------------------------------------------- *)

\* the closure of call c, and its fns array as it is now
closureOf(c) == IF c = cur THEN loaded ELSE parked
arrayNow(c) == IF c = cur THEN stack ELSE heap[arrayOf(c)]

\* what an attempt reports to next for specifier u when files and packages
\* are as they are
attemptResult(att, u) ==
  IF att.fn = "local"
    THEN [err |-> Null,
          file |-> IF localFile(att.base, u, ext) \in files
                     THEN localFile(att.base, u, ext) ELSE Null]
    ELSE [err |-> IF pkg[att.base] = "err"
                    THEN resolveError("2", att.base) ELSE Null,
          file |-> IF pkg[att.base] = "ext"
                     THEN pkgPath(att.base, extension(u, ext))
                   ELSE IF pkg[att.base] = "bare"
                     THEN pkgPath(att.base, u)
                   ELSE Undefined]

\* the reports a call for (u, p) makes when it runs alone: attempt by
\* attempt up to and including the first that finds a file
aloneReports(u, p) ==
  LET own == fns(includes(options, p, root))
      res == [ i \in DOMAIN own |-> attemptResult(own[i], u) ]
      hits == { i \in DOMAIN own : Truthy(res[i].file) }
      n == IF hits = {} THEN Len(own)
           ELSE CHOOSE i \in hits : \A j \in hits : i <= j
  IN  SubSeq(res, 1, n)

\* how a call for (u, p) ends when it runs alone
aloneOutcome(u, p) ==
  LET res == aloneReports(u, p)
      m == Len(res)
  IN  IF Truthy(res[m].file)
        THEN [done |-> << << [file |-> res[m].file] >> >>, thrown |-> <<>>]
      ELSE IF Truthy(res[m].err) \/ (m >= 2 /\ Truthy(res[m - 1].err))
        THEN [done |-> <<>>, thrown |-> << message(u, p) >>]
      ELSE [done |-> << <<>> >>, thrown |-> <<>>]

\* C14: whatever the interleaving, for each of the two calls: the attempts
\* it took and the attempts left in its array are together its own attempt
\* list (the other call took none of them away); its reports are those it
\* makes alone; the error it carries is that of its latest report; and it
\* ends as it ends alone.
C14_CallsIndependent ==
  \A c \in CallIds :
    LET v == closureOf(c)
        alone == aloneReports(v.url, v.prev)
    IN  /\ v.pc # "idle" =>
              v.started \o arrayNow(c) = fns(includes(options, v.prev, root))
        /\ Len(v.reported) <= Len(alone)
        /\ \A i \in DOMAIN v.reported : v.reported[i] = alone[i]
        /\ (v.pc = "running" /\ v.reported # <<>>)
              => v.error = v.reported[Len(v.reported)].err
        /\ v.pc = "finished" =>
              /\ v.reported = alone
              /\ [done |-> v.doneCalls, thrown |-> v.thrown]
                    = aloneOutcome(v.url, v.prev)

\* both calls are under way with different attempt lists, each has taken
\* attempts and has attempts left, and one carries an error while the
\* other does not
C14_Witness ==
  /\ pc = "running" /\ parked.pc = "running"
  /\ prev # parked.prev
  /\ Len(started) >= 2 /\ Len(parked.started) >= 2
  /\ arrayNow("first") # <<>> /\ arrayNow("second") # <<>>
  /\ Truthy(error) /\ ~Truthy(parked.error)

(* ---------- C15 --------------------------------------------------------- *)

\* C15: with root present the base list is not empty and ends in root,
\* whatever prev is; the call takes its first attempt from a non-empty
\* list, and no attempt is ever taken from an empty list (which would be
\* the TypeError of calling undefined).
C15_NeverEmptyList ==
  /\ Truthy(root) => (Len(bases) >= 1 /\ bases[Len(bases)] = root)
  /\ pc # "idle" => (Len(started) >= 1 /\ Len(allAttempts) >= 2)
  /\ \A i \in DOMAIN thrown : thrown[i] # TypeError

\* nothing configured and prev is not a file path: the list is the
\* directory "." and root, and all four attempts were made
C15_Witness ==
  /\ finished
  /\ Truthy(root)
  /\ options = << Undefined >>
  /\ dirname(prev) = << "." >>
  /\ Len(started) = 4

(* ---------- C16 --------------------------------------------------------- *)

\* C16: while the call runs, error is the error of the latest report only;
\* so a call that exhausted its list without success has thrown the fatal
\* error exactly when the last attempt or the one before it carried an
\* error, and has called done() otherwise.
C16_LastTwoDecide ==
  /\ (pc = "running" /\ reported # <<>>)
       => error = reported[Len(reported)].err
  /\ (finished /\ ~anySuccess) =>
       LET m == Len(reported)
           lastTwo == \/ Truthy(reported[m].err)
                      \/ (m >= 2 /\ Truthy(reported[m - 1].err))
       IN  /\ m = Len(attempts)
           /\ lastTwo => (thrown = << message(url, prev) >> /\ doneCalls = <<>>)
           /\ ~lastTwo => (thrown = <<>> /\ doneCalls = << <<>> >>)

\* an attempt before the last two carried an error, the last two did not:
\* the call ended with done()
C16_Witness ==
  /\ finished /\ ~anySuccess
  /\ \E k \in DOMAIN reported :
       k <= Len(reported) - 2 /\ Truthy(reported[k].err)
  /\ ~Truthy(reported[Len(reported)].err)
  /\ ~Truthy(reported[Len(reported) - 1].err)
  /\ doneCalls = << <<>> >>

(* ---------- C17 --------------------------------------------------------- *)

\* f ends in e
endsWith(f, e) ==
  /\ Len(e) <= Len(f)
  /\ \A j \in 1..Len(e) : f[Len(f) - Len(e) + j] = e[j]

\* C17: extension(extension(f, e), e) = extension(f, e): handing the result
\* back returns it unchanged, every time; and a file that already ends in
\* the extension is returned unchanged the first time.
C17_Idempotent ==
  /\ \A i \in DOMAIN extRets : extRets[i] = extRets[1]
  /\ (extRets # <<>> /\ endsWith(extArg.file, extArg.ext))
       => extRets[1] = extArg.file

\* the first call appended the extension and the second call was made
C17_Witness ==
  /\ Len(extRets) >= 2
  /\ extRets[1] # extArg.file
  /\ extRets[2] = extArg.file \o extArg.ext

(* ---------- C18 --------------------------------------------------------- *)

\* e occurs in f as a run of consecutive characters
contains(f, e) ==
  \E i \in 1..(Len(f) + 1) :
    i + Len(e) - 1 <= Len(f)
      /\ \A j \in 1..Len(e) : f[i + j - 1] = e[j]

\* C18: extension(f, e) is f exactly when e occurs somewhere in f, and is
\* f with e appended otherwise; it is never anything else.
C18_UnchangedIffContains ==
  extRets # <<>> =>
    LET f == extArg.file
        e == extArg.ext
        r == extRets[1]
    IN  /\ (r = f) <=> contains(f, e)
        /\ ~contains(f, e) => r = f \o e
        /\ r \in { f, f \o e }

\* the extension occurs in the file but not at its end, and the file came
\* back unchanged
C18_Witness ==
  /\ extRets # <<>>
  /\ extArg.ext # <<>>
  /\ contains(extArg.file, extArg.ext)
  /\ ~endsWith(extArg.file, extArg.ext)
  /\ extRets[1] = extArg.file

(* ---------- C19 --------------------------------------------------------- *)

\* C19: when the specifier contains the extension, the second request of a
\* package attempt has the request string and the basedir of the first.
C19_SamePackageRequest ==
  [][\A r \in issuedNow :
       (r.phase = 2 /\ contains(url, ext)) =>
         \E q \in pending :
           /\ q.op = "resolve" /\ q.phase = 1 /\ q.id = r.id
           /\ q.req = r.req
           /\ q.base = r.base]_vars

\* the second request for a specifier that has the extension is outstanding
C19_Witness ==
  /\ contains(url, ext)
  /\ \E r \in pending : r.phase = 2 /\ r.req = url

====
